---- MODULE Spec2Model ----
(***************************************************************************)
(* Model of the three scripts of the repository:                           *)
(*   scripts/prepare_arrayrecord_data.py  tokenized TFRecord data prep     *)
(*   scripts/prepare_data.py              JSONL data prep                  *)
(*   scripts/test_api.py                  probe of the inference API       *)
(* Five specifications share the variables; each one drives one part and   *)
(* leaves the other parts at their initial value:                          *)
(*   Spec          one run of main() of either data-prep script            *)
(*   SpecTokenize  tokenize_and_format applied to bounded examples         *)
(*   SpecExample   _create_tf_example applied to bounded feature maps      *)
(*   SpecCalls     test_health / list_models / generate_text /             *)
(*                 chat_completion applied to every outcome of a request   *)
(*   SpecProbe     one run of main() of test_api.py                        *)
(***************************************************************************)
EXTENDS Integers, Sequences, FiniteSets, TLC

VARIABLES
    \* ---- tokenize_and_format (SpecTokenize)
    tokElement,     \* the element passed to tokenize_and_format
    tokTokenizer,   \* the loaded tokenizer's padding / truncation sides
    tokLength,      \* instruction_length of the last call
    tokOut,         \* the dictionary the last call returned
    tokDone,        \* a call has returned
    \* ---- _create_tf_example (SpecExample)
    features,       \* the argument of _create_tf_example
    example,        \* what the call produced
    exDone,         \* a call has ended
    \* ---- the data-prep run (Spec)
    script,         \* which script's main() runs
    pc,             \* position of the run
    hf_token,       \* os.environ.get('HUGGINGFACE_TOKEN') is truthy
    num_samples,    \* args.num_samples
    dataset,        \* the selected examples, <<>> before load_dataset
    loaded,         \* load_dataset has been called
    tokenized,      \* tokenized_dataset / formatted_data built so far
    file,           \* the local output file
    idx,            \* loop index of the write loop
    warnings,       \* indices i of "Warning: Skipping record i" lines
    uploads,        \* calls of blob.upload_from_filename so far
    uploaded,       \* the cloud object's records after a successful upload
    printed,        \* "Upload completed!" was printed
    exitCode,       \* -1 while running, else the process's exit status
    exitCause,      \* the exception that ended the run, "none" otherwise
    faults,         \* indices i at which serializing or writing record i raised
    \* ---- single API operations (SpecCalls)
    callName,       \* the operation called last
    callOutcome,    \* what the HTTP request of that call met
    callResult,     \* what the operation returned or raised
    callDone,       \* the call has ended
    \* ---- the probe's main() (SpecProbe)
    ppc,            \* position of main()
    mode,           \* args.mode
    ipArg,          \* --ip was given
    ipState,        \* "unset", "given", "found" (by kubectl) or "none"
    promptArg,      \* --prompt was given
    jsonErrCaught,  \* the installed requests raises its own JSONDecodeError
    healthPassed,   \* test_health returned True in this run
    http,           \* the requests issued so far, in order
    results,        \* what each completion call of the mode returned
    demoI,          \* run_demo_prompts' loop counter i
    turns,          \* prompts typed in interactive mode so far
    interrupted,    \* a KeyboardInterrupt was delivered inside the mode
    lastLine,       \* the line input() returned last
    modeEnd,        \* how the mode function ended
    probeExit       \* -1 while running, else the process's exit status

tokVars == <<tokElement, tokTokenizer, tokLength, tokOut, tokDone>>
exVars == <<features, example, exDone>>
runVars == <<script, pc, hf_token, num_samples, dataset, loaded, tokenized, file,
             idx, warnings, uploads, uploaded, printed, exitCode, exitCause,
             faults>>
callVars == <<callName, callOutcome, callResult, callDone>>
probeVars == <<ppc, mode, ipArg, ipState, promptArg, healthPassed, http, results,
               demoI, turns, interrupted, lastLine, modeEnd, probeExit>>
vars == <<tokVars, exVars, runVars, callVars, probeVars, jsonErrCaught>>

Min(a, b) == IF a < b THEN a ELSE b

\* ------------------------------------------------------------------------
\* Bounds of the model
\* ------------------------------------------------------------------------
\* longest instruction / input / output, in words
MaxInstr == 2
MaxInput == 1
MaxOutput == 2
\* max_length of the full tokenization (2048 in the source, scaled down so that
\* padding, exact fit and truncation all occur within the text bounds)
MaxLength == 6

\* ------------------------------------------------------------------------
\* Text, the Alpaca template and the tokenizer
\* ------------------------------------------------------------------------
\* A text is a sequence of pieces: the template's literal pieces and words.
Words == {"w1", "w2"}
InstructionHeader == "### Instruction:\n"
InputHeader == "### Input:\n"
ResponseHeader == "### Response:\n"
Newline == "\n"

SeqsUpTo(S, n) == UNION {[1..m -> S] : m \in 0..n}

Elements == [instruction : SeqsUpTo(Words, MaxInstr),
             input : SeqsUpTo(Words, MaxInput),
             output : SeqsUpTo(Words, MaxOutput)]

\* the prompt: everything up to and including the response header
instruction_part(element) ==
    <<InstructionHeader>> \o element.instruction \o <<Newline>>
      \o (IF element.input # <<>>
            THEN <<InputHeader>> \o element.input \o <<Newline>>
            ELSE <<>>)
      \o <<ResponseHeader>>

\* the full text: the prompt followed by the answer
format_text(element) == instruction_part(element) \o element.output

\* token ids of the tokenizer's vocabulary
Bos == 2
Eos == 1
TokenId(piece) ==
    CASE piece = InstructionHeader -> 10
      [] piece = InputHeader -> 11
      [] piece = ResponseHeader -> 12
      [] piece = Newline -> 13
      [] piece = "w1" -> 21
      [] piece = "w2" -> 22

\* tokenizer(text): the begin-of-sequence id, then one id per piece
Encode(text) == <<Bos>> \o [i \in 1..Len(text) |-> TokenId(text[i])]

Sides == {"left", "right"}
Tokenizers == [padding_side : Sides, truncation_side : Sides]

Repeat(x, n) == [i \in 1..n |-> x]

\* truncation=True, max_length=n
Truncate(ids, n, side) ==
    IF Len(ids) <= n THEN ids
    ELSE IF side = "right" THEN SubSeq(ids, 1, n)
    ELSE SubSeq(ids, Len(ids) - n + 1, Len(ids))

\* padding='max_length' with pad_token = eos_token
Pad(ids, n, side, padId) ==
    IF Len(ids) >= n THEN ids
    ELSE IF side = "right" THEN ids \o Repeat(padId, n - Len(ids))
    ELSE Repeat(padId, n - Len(ids)) \o ids

\* tokenizer(text, padding='max_length', truncation=True, max_length=n)
TokenizeFull(text, tk, n) ==
    LET kept == Truncate(Encode(text), n, tk.truncation_side)
    IN  [input_ids |-> Pad(kept, n, tk.padding_side, Eos),
         attention_mask |-> Pad(Repeat(1, Len(kept)), n, tk.padding_side, 0)]

\* tf.shape(tokenizer(instruction_part)['input_ids'])[1]: no padding, no truncation
instruction_length(element) == Len(Encode(instruction_part(element)))

Sentinel == -1

\* labels_numpy[0, :instruction_length] = -1, as a bug would write it: one
\* position short
MaskShort(ids, k) == [i \in 1..Len(ids) |-> IF i < k THEN Sentinel ELSE ids[i]]

\* labels_numpy[0, :instruction_length] = -1 (a slice end past the end is clamped)
MaskPrefix(ids, k) == [i \in 1..Len(ids) |-> IF i <= k THEN Sentinel ELSE ids[i]]

tokenize_and_format(element, tk) ==
    LET tokenized_full == TokenizeFull(format_text(element), tk, MaxLength)
    IN  [inputs |-> tokenized_full.input_ids,
         targets |-> MaskPrefix(tokenized_full.input_ids, instruction_length(element)),
         inputs_segmentation |-> tokenized_full.attention_mask,
         targets_segmentation |-> tokenized_full.attention_mask]

NoElement == [instruction |-> <<>>, input |-> <<>>, output |-> <<>>]
NoOutput == [inputs |-> <<>>, targets |-> <<>>,
             inputs_segmentation |-> <<>>, targets_segmentation |-> <<>>]

TokIdle ==
    /\ tokElement = NoElement
    /\ tokLength = 0
    /\ tokOut = NoOutput
    /\ tokDone = FALSE

\* the call of tokenize_and_format on the element drawn initially
TokenizeCall ==
    /\ ~tokDone
    /\ tokLength' = instruction_length(tokElement)
    /\ tokOut' = tokenize_and_format(tokElement, tokTokenizer)
    /\ tokDone' = TRUE
    /\ UNCHANGED <<tokElement, tokTokenizer>>
    /\ UNCHANGED <<exVars, runVars, callVars, probeVars, jsonErrCaught>>

\* ------------------------------------------------------------------------
\* _create_tf_example
\* ------------------------------------------------------------------------
\* longest list, tuple or tensor value of a feature
MaxElems == 2

\* A Python value met inside a sequence. A float is held in tenths (v = -15 is
\* -1.5); "numstr" is a str that int() parses to v; "str" is any other str.
IntElems == [t : {"int"}, v : {-1, 7}]
FloatElems == [t : {"float"}, v : {-15, 27}]
NumberElems == IntElems \cup FloatElems \cup [t : {"inf", "nan"}, v : {0}]
Elems == NumberElems \cup [t : {"numstr"}, v : {12}] \cup [t : {"str", "none"}, v : {0}]

\* A feature value: a scalar (elems = <<>>) or a list, a tuple or a tensor (an
\* object with .numpy(), whose flattened list holds numbers only).
SeqKinds == {"list", "tuple", "tensor"}
Values ==
    [kind : {"int"}, v : {-1, 7}, elems : {<<>>}]
      \cup [kind : {"float"}, v : {27}, elems : {<<>>}]
      \cup [kind : {"str", "none"}, v : {0}, elems : {<<>>}]
      \cup [kind : {"list", "tuple"}, v : {0}, elems : SeqsUpTo(Elems, MaxElems)]
      \cup [kind : {"tensor"}, v : {0}, elems : SeqsUpTo(NumberElems, MaxElems)]

\* int(x) of a float as a bug would compute it: rounded down
FloorFloat(tenths) == tenths \div 10

\* int(x) of a finite float: the fraction is discarded, toward zero
TruncFloat(tenths) == IF tenths >= 0 THEN tenths \div 10 ELSE -((-tenths) \div 10)

\* int(v): the exception it raises, "none" when it returns
IntError(e) ==
    CASE e.t \in {"int", "float", "numstr"} -> "none"
      [] e.t \in {"str", "nan"} -> "ValueError"
      [] e.t = "none" -> "TypeError"
      [] e.t = "inf" -> "OverflowError"

\* int(v): the value it returns
IntOf(e) == IF e.t = "float" THEN TruncFloat(e.v) ELSE e.v

\* [int(v) for v in value]: the first element int() rejects ends the
\* comprehension with that element's exception
ComprehensionError(elems) ==
    LET bad == {i \in 1..Len(elems) : IntError(elems[i]) # "none"}
    IN  IF bad = {} THEN "none"
        ELSE IntError(elems[CHOOSE i \in bad : \A j \in bad : i <= j])

\* the list the isinstance chain of lines 20-28 hands on, or "skip" (continue)
AsList(value) ==
    IF value.kind \in SeqKinds THEN [skip |-> FALSE, list |-> value.elems]
    ELSE IF value.kind = "int" THEN [skip |-> FALSE, list |-> <<[t |-> "int", v |-> value.v]>>]
    ELSE [skip |-> TRUE, list |-> <<>>]

\* what one (key, value) of the loop ends in: "keep", "skip" (continue), or the
\* exception that leaves the function
FieldOutcome(value) ==
    LET l == AsList(value)
        err == ComprehensionError(l.list)
    IN  IF l.skip THEN "skip"
        ELSE IF err = "none" THEN "keep"
        ELSE IF err \in {"ValueError", "TypeError"} THEN "skip"
        ELSE err

FieldInts(value) == LET l == AsList(value).list IN [i \in 1..Len(l) |-> IntOf(l[i])]

\* _create_tf_example(features): the int64 features of the Example, or the
\* exception raised
create_tf_example(fs) ==
    LET raising == {k \in DOMAIN fs : FieldOutcome(fs[k]) \notin {"keep", "skip"}}
        kept == {k \in DOMAIN fs : FieldOutcome(fs[k]) = "keep"}
    IN  IF raising # {}
          THEN [raised |-> FieldOutcome(fs[CHOOSE k \in raising : TRUE]), feature |-> <<>>]
          ELSE [raised |-> "none", feature |-> [k \in kept |-> FieldInts(fs[k])]]

\* the second field of the bounded feature maps
OtherValues ==
    {[kind |-> "list", v |-> 0, elems |-> <<[t |-> "int", v |-> 7]>>],
     [kind |-> "str", v |-> 0, elems |-> <<>>],
     [kind |-> "tuple", v |-> 0, elems |-> <<[t |-> "float", v |-> 27]>>]}

FeatureMaps == {[f1 |-> a, f2 |-> b] : a \in Values, b \in OtherValues}

NoExample == [raised |-> "none", feature |-> <<>>]

ExIdle ==
    /\ features = [f1 |-> [kind |-> "none", v |-> 0, elems |-> <<>>],
                   f2 |-> [kind |-> "none", v |-> 0, elems |-> <<>>]]
    /\ example = NoExample
    /\ exDone = FALSE

\* the call of _create_tf_example on the feature map drawn initially
CreateTfExampleCall ==
    /\ ~exDone
    /\ example' = create_tf_example(features)
    /\ exDone' = TRUE
    /\ UNCHANGED features
    /\ UNCHANGED <<tokVars, runVars, callVars, probeVars, jsonErrCaught>>

\* ------------------------------------------------------------------------
\* One run of a data-prep script: main() of prepare_arrayrecord_data.py or of
\* prepare_data.py
\* ------------------------------------------------------------------------
\* largest --num_samples tried (above the size of the source, so that
\* min(num_samples, len(dataset)) takes both branches)
MaxSamples == 4

Scripts == {"arrayrecord", "jsonl"}

\* load_dataset("tatsu-lab/alpaca", split="train"): the rows of the source
SourceDataset ==
    <<[instruction |-> <<>>, input |-> <<>>, output |-> <<"w1">>],
      [instruction |-> <<"w1">>, input |-> <<>>, output |-> <<"w2", "w1">>],
      [instruction |-> <<"w2">>, input |-> <<"w1">>, output |-> <<"w1">>]>>

\* dataset.select(range(min(num_samples, len(dataset))))
Select(rows, n) == SubSeq(rows, 1, Min(n, Len(rows)))

StrValue == [kind |-> "str", v |-> 0, elems |-> <<>>]
ListValue(ids) ==
    [kind |-> "list", v |-> 0, elems |-> [i \in 1..Len(ids) |-> [t |-> "int", v |-> ids[i]]]]

\* a row of dataset.map(tokenize_and_format): the row's own text columns and
\* the four columns the function returns
MappedRow(element, tk) ==
    LET out == tokenize_and_format(element, tk)
    IN  [instruction |-> StrValue, input |-> StrValue, output |-> StrValue,
         inputs |-> ListValue(out.inputs),
         targets |-> ListValue(out.targets),
         inputs_segmentation |-> ListValue(out.inputs_segmentation),
         targets_segmentation |-> ListValue(out.targets_segmentation)]

\* formatted_data.append({"text": text})
FormattedItem(element) == [text |-> format_text(element)]

\* the check of HUGGINGFACE_TOKEN as a bug would write it: never failing
TokenCheckSkipped(token) == TRUE

\* `if not hf_token: raise ValueError(...)`: the check passes
TokenCheckPasses(token) == token

\* writer.write(record) as a bug would write it: the record goes first
WriterWriteFirst(records, record) == <<record>> \o records

\* writer.write(record): the record goes after the records written before
WriterWrite(records, record) == Append(records, record)

\* an exception of upload_to_gcs as a bug would treat it: caught, the upload
\* tried again
RetryAfterUploadError == [pc |-> "upload", exitCode |-> -1]

\* an exception of upload_to_gcs leaves main(): traceback, exit status 1
AfterUploadError == [pc |-> "exited", exitCode |-> 1]

NoFile == [exists |-> FALSE, open |-> FALSE, records |-> <<>>]

RunIdle ==
    /\ script = "arrayrecord"
    /\ pc = "idle"
    /\ hf_token = FALSE
    /\ num_samples = 0
    /\ dataset = <<>>
    /\ loaded = FALSE
    /\ tokenized = <<>>
    /\ file = NoFile
    /\ idx = 0
    /\ warnings = <<>>
    /\ uploads = 0
    /\ uploaded = <<>>
    /\ printed = FALSE
    /\ exitCode = -1
    /\ exitCause = "none"
    /\ faults = {}

\* what a step of the run leaves alone
RunFrame == UNCHANGED <<tokVars, exVars, callVars, probeVars, jsonErrCaught>>

\* an uncaught exception: traceback, exit status 1
Abort(cause) ==
    /\ pc' = "exited"
    /\ exitCode' = 1
    /\ exitCause' = cause

\* prepare_alpaca_arrayrecord, lines 44-51: the credential check and
\* AutoTokenizer.from_pretrained
LoadTokenizer ==
    /\ RunFrame
    /\ script = "arrayrecord"
    /\ pc = "start"
    /\ IF ~TokenCheckPasses(hf_token)
         THEN Abort("ValueError")
         ELSE \E ok \in BOOLEAN :
                IF ok THEN /\ pc' = "load"
                           /\ UNCHANGED <<exitCode, exitCause>>
                ELSE Abort("from_pretrained")
    /\ UNCHANGED <<script, hf_token, num_samples, dataset, loaded, tokenized, file,
                   idx, warnings, uploads, uploaded, printed, faults>>

\* load_dataset and dataset.select, in either script (prepare_data.py starts
\* here: it reads no credential)
LoadDataset ==
    /\ RunFrame
    /\ \/ script = "arrayrecord" /\ pc = "load"
       \/ script = "jsonl" /\ pc = "start"
    /\ loaded' = TRUE
    /\ \E ok \in BOOLEAN :
         IF ok THEN /\ dataset' = Select(SourceDataset, num_samples)
                    /\ pc' = "map"
                    /\ UNCHANGED <<exitCode, exitCause>>
         ELSE /\ Abort("load_dataset")
              /\ UNCHANGED dataset
    /\ UNCHANGED <<script, hf_token, num_samples, tokenized, file, idx, warnings,
                   uploads, uploaded, printed, faults>>

\* dataset.map(tokenize_and_format, batched=False): one row; an exception of
\* the tokenizer leaves map, prepare_alpaca_arrayrecord and main
MapRow ==
    /\ RunFrame
    /\ script = "arrayrecord"
    /\ pc = "map"
    /\ Len(tokenized) < Len(dataset)
    /\ \E rejected \in BOOLEAN :
         IF rejected
           THEN /\ Abort("tokenizer")
                /\ UNCHANGED tokenized
           ELSE /\ tokenized' = Append(tokenized,
                                       MappedRow(dataset[Len(tokenized) + 1], tokTokenizer))
                /\ UNCHANGED <<pc, exitCode, exitCause>>
    /\ UNCHANGED <<script, hf_token, num_samples, dataset, loaded, file, idx,
                   warnings, uploads, uploaded, printed, faults>>

\* prepare_alpaca_dataset, lines 25-33: the formatting loop
FormatData ==
    /\ RunFrame
    /\ script = "jsonl"
    /\ pc = "map"
    /\ tokenized = <<>>
    /\ dataset # <<>>
    /\ tokenized' = [i \in 1..Len(dataset) |-> FormattedItem(dataset[i])]
    /\ UNCHANGED <<script, pc, hf_token, num_samples, dataset, loaded, file, idx,
                   warnings, uploads, uploaded, printed, exitCode, exitCause, faults>>

\* os.makedirs and the opening of the output file
OpenFile ==
    /\ RunFrame
    /\ pc = "map"
    /\ Len(tokenized) = Len(dataset)
    /\ \E ok \in BOOLEAN :
         IF ok THEN /\ file' = [exists |-> TRUE, open |-> TRUE, records |-> <<>>]
                    /\ pc' = "write"
                    /\ UNCHANGED <<exitCode, exitCause>>
         ELSE /\ Abort("open")
              /\ UNCHANGED file
    /\ UNCHANGED <<script, hf_token, num_samples, dataset, loaded, tokenized, idx,
                   warnings, uploads, uploaded, printed, faults>>

\* one pass of the loop of lines 102-111: the record is serialized and
\* written, or the exception is caught, a warning printed and the loop goes on
WriteRecord ==
    /\ RunFrame
    /\ script = "arrayrecord"
    /\ pc = "write"
    /\ idx < Len(tokenized)
    /\ \E written \in BOOLEAN :
         LET ex == create_tf_example(tokenized[idx + 1])
         IN  IF ex.raised = "none" /\ written
               THEN /\ file' = [file EXCEPT !.records = WriterWrite(@, ex.feature)]
                    /\ UNCHANGED <<warnings, faults>>
               ELSE /\ warnings' = Append(warnings, idx)
                    /\ faults' = faults \cup {idx}
                    /\ UNCHANGED file
    /\ idx' = idx + 1
    /\ UNCHANGED <<script, pc, hf_token, num_samples, dataset, loaded, tokenized,
                   uploads, uploaded, printed, exitCode, exitCause>>

\* one pass of the loop of prepare_data.py, lines 40-41; an exception of
\* f.write closes the file (the with block) and leaves main
WriteLine ==
    /\ RunFrame
    /\ script = "jsonl"
    /\ pc = "write"
    /\ idx < Len(tokenized)
    /\ \E written \in BOOLEAN :
         IF written
           THEN /\ file' = [file EXCEPT !.records = Append(@, tokenized[idx + 1])]
                /\ idx' = idx + 1
                /\ UNCHANGED <<pc, exitCode, exitCause, faults>>
           ELSE /\ file' = [file EXCEPT !.open = FALSE]
                /\ faults' = faults \cup {idx}
                /\ Abort("write")
                /\ UNCHANGED idx
    /\ UNCHANGED <<script, hf_token, num_samples, dataset, loaded, tokenized,
                   warnings, uploads, uploaded, printed>>

\* the end of the with block: the file is closed, the function returns
CloseFile ==
    /\ RunFrame
    /\ pc = "write"
    /\ idx = Len(tokenized)
    /\ file' = [file EXCEPT !.open = FALSE]
    /\ pc' = "upload"
    /\ UNCHANGED <<script, hf_token, num_samples, dataset, loaded, tokenized, idx,
                   warnings, uploads, uploaded, printed, exitCode, exitCause, faults>>

\* upload_to_gcs, called once by main
Upload ==
    /\ RunFrame
    /\ pc = "upload"
    /\ uploads' = uploads + 1
    /\ \E ok \in BOOLEAN :
         IF ok THEN /\ uploaded' = file.records
                    /\ printed' = TRUE
                    /\ pc' = "exited"
                    /\ exitCode' = 0
                    /\ UNCHANGED exitCause
         ELSE /\ pc' = AfterUploadError.pc
              /\ exitCode' = AfterUploadError.exitCode
              /\ exitCause' = "upload"
              /\ UNCHANGED <<uploaded, printed>>
    /\ UNCHANGED <<script, hf_token, num_samples, dataset, loaded, tokenized, file,
                   idx, warnings, faults>>

\* ------------------------------------------------------------------------
\* test_api.py: the operations on the API
\* ------------------------------------------------------------------------
\* What a request meets: a response (status, body) or a requests.RequestException
\* (connection refused, timeout, ...). A body is a completion object (first
\* choice with "text"), a chat object (first choice with "message"), a JSON
\* object without "choices", one with an empty "choices", or no JSON at all.
Statuses == {200, 204, 404, 500}
BodyShapes == {"completion", "chat", "no_choices", "empty_choices", "not_json"}
Texts == {"", "T1"}
Responses == [kind : {"response"}, status : Statuses, shape : BodyShapes, text : Texts]
NetworkFault == [kind |-> "RequestException", status |-> 0, shape |-> "not_json", text |-> ""]
Outcomes == Responses \cup {NetworkFault}

Returned(value, diag) == [raised |-> "none", ret |-> value, diag |-> diag]
Raised(exc) == [raised |-> exc, ret |-> "", diag |-> FALSE]

\* the status test of test_health as a bug would write it: any status below 300
HealthyBelow300(status) == status < 300

\* `response.status_code == 200`
StatusOk(status) == status = 200

\* test_health(base_url)
test_health(o) ==
    IF o.kind = "RequestException" THEN Returned(FALSE, TRUE)
    ELSE IF StatusOk(o.status) THEN Returned(TRUE, FALSE)
    ELSE Returned(FALSE, TRUE)

\* response.json() of a body that is no JSON raises JSONDecodeError: a
\* RequestException in a requests that defines its own (caught by the except
\* clauses below), a plain ValueError in an older one
JsonError(caught, onCaught) == IF caught THEN onCaught ELSE Raised("ValueError")

\* list_models(base_url): every shape of JSON object has .get
list_models(o, caught) ==
    IF o.kind = "RequestException" THEN Returned("{}", TRUE)
    ELSE IF o.status = 200
      THEN IF o.shape = "not_json" THEN JsonError(caught, Returned("{}", TRUE))
           ELSE Returned("models", FALSE)
    ELSE Returned("{}", TRUE)

\* result["choices"][0][field] on the parsed body
FirstChoice(o, shape) ==
    CASE o.shape = "no_choices" -> Raised("KeyError")
      [] o.shape = "empty_choices" -> Raised("IndexError")
      [] o.shape = shape -> Returned(o.text, FALSE)
      [] OTHER -> Raised("KeyError")

\* the body of generate_text and of chat_completion after the POST
Completion(o, caught, shape) ==
    IF o.kind = "RequestException" THEN Returned("", TRUE)
    ELSE IF o.status = 200
      THEN IF o.shape = "not_json" THEN JsonError(caught, Returned("", TRUE))
           ELSE FirstChoice(o, shape)
    ELSE Returned("", TRUE)

\* generate_text(base_url, prompt): result["choices"][0]["text"]
generate_text(o, caught) == Completion(o, caught, "completion")

\* chat_completion(base_url, messages): result["choices"][0]["message"]["content"]
chat_completion(o, caught) == Completion(o, caught, "chat")

Operations == {"test_health", "list_models", "generate_text", "chat_completion"}

NoResult == Returned("", FALSE)

CallIdle ==
    /\ callName = "none"
    /\ callOutcome = NetworkFault
    /\ callResult = NoResult
    /\ callDone = FALSE

CallFrame ==
    /\ callDone' = TRUE
    /\ UNCHANGED <<callName, callOutcome>>
    /\ UNCHANGED <<tokVars, exVars, runVars, probeVars, jsonErrCaught>>

\* the call of each operation, its request meeting the outcome drawn initially
CallTestHealth ==
    /\ callName = "test_health" /\ ~callDone
    /\ callResult' = test_health(callOutcome)
    /\ CallFrame

CallListModels ==
    /\ callName = "list_models" /\ ~callDone
    /\ callResult' = list_models(callOutcome, jsonErrCaught)
    /\ CallFrame

CallGenerateText ==
    /\ callName = "generate_text" /\ ~callDone
    /\ callResult' = generate_text(callOutcome, jsonErrCaught)
    /\ CallFrame

CallChatCompletion ==
    /\ callName = "chat_completion" /\ ~callDone
    /\ callResult' = chat_completion(callOutcome, jsonErrCaught)
    /\ CallFrame

\* ------------------------------------------------------------------------
\* test_api.py: main(), run_demo_prompts and interactive_mode
\* ------------------------------------------------------------------------
\* most prompts typed in interactive mode
MaxTurns == 2

Modes == {"test", "demo", "interactive"}

\* len(demo_prompts)
NumDemoPrompts == 4

\* A typed line: a word, possibly in upper case, possibly with blanks around
Lines == [core : {"quit", "exit", "q", "hi", ""}, upper : BOOLEAN, padded : BOOLEAN]
NoLine == [core |-> "", upper |-> FALSE, padded |-> FALSE]
\* str.strip()
Strip(line) == [line EXCEPT !.padded = FALSE]
\* str.lower()
Lower(line) == [line EXCEPT !.upper = FALSE]
Word(core) == [core |-> core, upper |-> FALSE, padded |-> FALSE]
\* prompt.lower() in ['quit', 'exit', 'q']
IsQuit(prompt) == Lower(prompt) \in {Word("quit"), Word("exit"), Word("q")}
\* `if prompt:`
NonEmpty(prompt) == prompt.core # ""

Get(path) == [method |-> "GET", path |-> path, prompt |-> "-"]
Post(prompt) == [method |-> "POST", path |-> "/v1/completions", prompt |-> prompt]

\* `if not test_health(base_url)` as a bug would write it: the result unused
HealthIgnored(ok) == TRUE

\* `if not test_health(base_url): sys.exit(1)`: main goes on
HealthGate(ok) == ok

ProbeIdle ==
    /\ ppc = "idle"
    /\ mode = "test"
    /\ ipArg = FALSE
    /\ ipState = "unset"
    /\ promptArg = FALSE
    /\ healthPassed = FALSE
    /\ http = <<>>
    /\ results = <<>>
    /\ demoI = 0
    /\ turns = 0
    /\ interrupted = FALSE
    /\ lastLine = NoLine
    /\ modeEnd = "none"
    /\ probeExit = -1

\* what a step of the probe leaves alone
ProbeFrame == UNCHANGED <<tokVars, exVars, runVars, callVars, jsonErrCaught>>

\* the process ends with this status
Exit(status) ==
    /\ ppc' = "exited"
    /\ probeExit' = status

\* main, lines 184-191; get_service_ip runs kubectl, which prints an address,
\* prints nothing, fails (CalledProcessError) or is not installed
GetIp ==
    /\ ProbeFrame
    /\ ppc = "start"
    /\ IF ipArg
         THEN /\ ipState' = "given"
              /\ ppc' = "health"
              /\ UNCHANGED probeExit
         ELSE \E kubectl \in {"address", "empty", "CalledProcessError", "FileNotFoundError"} :
                IF kubectl = "address"
                  THEN /\ ipState' = "found"
                       /\ ppc' = "health"
                       /\ UNCHANGED probeExit
                  ELSE /\ ipState' = "none"
                       /\ Exit(1)
    /\ UNCHANGED <<mode, ipArg, promptArg, healthPassed, http, results, demoI, turns,
                   interrupted, lastLine, modeEnd>>

\* main, lines 193-197
Health ==
    /\ ProbeFrame
    /\ ppc = "health"
    /\ \E o \in Outcomes :
         LET r == test_health(o)
         IN  /\ http' = Append(http, Get("/health"))
             /\ healthPassed' = r.ret
             /\ IF HealthGate(r.ret)
                  THEN /\ ppc' = "models"
                       /\ UNCHANGED probeExit
                  ELSE Exit(1)
    /\ UNCHANGED <<mode, ipArg, ipState, promptArg, results, demoI, turns,
                   interrupted, lastLine, modeEnd>>

\* main, lines 199-201 and the dispatch on args.mode
ListModels ==
    /\ ProbeFrame
    /\ ppc = "models"
    /\ \E o \in Outcomes :
         LET r == list_models(o, jsonErrCaught)
         IN  /\ http' = Append(http, Get("/v1/models"))
             /\ IF r.raised # "none"
                  THEN /\ Exit(1)
                       /\ UNCHANGED demoI
                  ELSE /\ ppc' = mode
                       /\ demoI' = IF mode = "demo" THEN 1 ELSE demoI
                       /\ UNCHANGED probeExit
    /\ UNCHANGED <<mode, ipArg, ipState, promptArg, healthPassed, results, turns,
                   interrupted, lastLine, modeEnd>>

\* main, lines 204-210 and 218: one completion, then "Testing completed"
TestPrompt ==
    /\ ProbeFrame
    /\ ppc = "test"
    /\ \E o \in Outcomes :
         LET r == generate_text(o, jsonErrCaught)
         IN  /\ http' = Append(http, Post(IF promptArg THEN "custom" ELSE "sample"))
             /\ IF r.raised # "none"
                  THEN /\ Exit(1)
                       /\ UNCHANGED results
                  ELSE /\ Exit(0)
                       /\ results' = Append(results, r.ret)
    /\ UNCHANGED <<mode, ipArg, ipState, promptArg, healthPassed, demoI, turns,
                   interrupted, lastLine, modeEnd>>

\* an exception leaves the mode function and main: traceback
ModeRaises(exc) ==
    /\ modeEnd' = exc
    /\ Exit(IF exc = "KeyboardInterrupt" THEN 130 ELSE 1)

\* the mode function returns; main prints "Testing completed"
ModeReturns ==
    /\ modeEnd' = "returned"
    /\ Exit(0)

\* run_demo_prompts, lines 146-149: prompt i is posted; a KeyboardInterrupt
\* during the call is no RequestException and no handler of the function
\* catches it
DemoPrompt ==
    /\ ProbeFrame
    /\ ppc = "demo"
    /\ http' = Append(http, Post(demoI))
    /\ \/ /\ interrupted' = TRUE
          /\ ModeRaises("KeyboardInterrupt")
          /\ UNCHANGED results
       \/ \E o \in Outcomes :
            LET r == generate_text(o, jsonErrCaught)
            IN  /\ UNCHANGED interrupted
                /\ IF r.raised # "none"
                     THEN /\ ModeRaises(r.raised)
                          /\ UNCHANGED results
                     ELSE /\ results' = Append(results, r.ret)
                          /\ IF demoI < NumDemoPrompts
                               THEN /\ ppc' = "sleep"
                                    /\ UNCHANGED <<modeEnd, probeExit>>
                               ELSE ModeReturns
    /\ UNCHANGED <<mode, ipArg, ipState, promptArg, healthPassed, demoI, turns, lastLine>>

\* run_demo_prompts, lines 151-153: time.sleep(2), which an interrupt ends
DemoSleep ==
    /\ ProbeFrame
    /\ ppc = "sleep"
    /\ \/ /\ interrupted' = TRUE
          /\ ModeRaises("KeyboardInterrupt")
          /\ UNCHANGED demoI
       \/ /\ demoI' = demoI + 1
          /\ ppc' = "demo"
          /\ UNCHANGED <<interrupted, modeEnd, probeExit>>
    /\ UNCHANGED <<mode, ipArg, ipState, promptArg, healthPassed, http, results,
                   turns, lastLine>>

\* interactive_mode, one pass of the loop of lines 160-171 that ends in input():
\* a KeyboardInterrupt is caught, end of input (EOFError) is not
InteractiveNoLine ==
    /\ ProbeFrame
    /\ ppc = "interactive"
    /\ \/ /\ interrupted' = TRUE
          /\ ModeReturns
       \/ /\ ModeRaises("EOFError")
          /\ UNCHANGED interrupted
    /\ UNCHANGED <<mode, ipArg, ipState, promptArg, healthPassed, http, results,
                   demoI, turns, lastLine>>

\* interactive_mode, one pass of the loop with a typed line
InteractiveLine ==
    /\ ProbeFrame
    /\ ppc = "interactive"
    /\ \E line \in Lines :
         LET prompt == Strip(line)
         IN  /\ lastLine' = line
             /\ IF IsQuit(prompt)
                  THEN /\ ModeReturns
                       /\ UNCHANGED <<http, results, turns, interrupted>>
                ELSE IF ~NonEmpty(prompt)
                  THEN UNCHANGED <<ppc, http, results, turns, interrupted, modeEnd, probeExit>>
                ELSE /\ turns < MaxTurns
                     /\ turns' = turns + 1
                     /\ http' = Append(http, Post(turns + 1))
                     /\ \/ /\ interrupted' = TRUE
                           /\ ModeReturns
                           /\ UNCHANGED results
                        \/ \E o \in Outcomes :
                             LET r == generate_text(o, jsonErrCaught)
                             IN  /\ UNCHANGED interrupted
                                 /\ IF r.raised # "none"
                                      THEN /\ ModeRaises(r.raised)
                                           /\ UNCHANGED results
                                      ELSE /\ results' = Append(results, r.ret)
                                           /\ UNCHANGED <<ppc, modeEnd, probeExit>>
    /\ UNCHANGED <<mode, ipArg, ipState, promptArg, healthPassed, demoI>>

\* ------------------------------------------------------------------------
\* The specifications
\* ------------------------------------------------------------------------
TokenizerIdle == tokTokenizer = [padding_side |-> "right", truncation_side |-> "right"]

\* a run of either data-prep script, with any credential, sample count and
\* tokenizer configuration
Init ==
    /\ TokIdle /\ ExIdle /\ CallIdle /\ ProbeIdle
    /\ tokTokenizer \in Tokenizers
    /\ jsonErrCaught = TRUE
    /\ script \in Scripts
    /\ pc = "start"
    /\ hf_token \in BOOLEAN
    /\ num_samples \in 0..MaxSamples
    /\ dataset = <<>>
    /\ loaded = FALSE
    /\ tokenized = <<>>
    /\ file = NoFile
    /\ idx = 0
    /\ warnings = <<>>
    /\ uploads = 0
    /\ uploaded = <<>>
    /\ printed = FALSE
    /\ exitCode = -1
    /\ exitCause = "none"
    /\ faults = {}

Next ==
    \/ LoadTokenizer
    \/ LoadDataset
    \/ MapRow
    \/ FormatData
    \/ OpenFile
    \/ WriteRecord
    \/ WriteLine
    \/ CloseFile
    \/ Upload

Spec == Init /\ [][Next]_vars

\* tokenize_and_format on every bounded element and tokenizer configuration
InitTokenize ==
    /\ ExIdle /\ RunIdle /\ CallIdle /\ ProbeIdle
    /\ jsonErrCaught = TRUE
    /\ tokElement \in Elements
    /\ tokTokenizer \in Tokenizers
    /\ tokLength = 0
    /\ tokOut = NoOutput
    /\ tokDone = FALSE

NextTokenize == TokenizeCall

SpecTokenize == InitTokenize /\ [][NextTokenize]_vars

\* _create_tf_example on every bounded feature map
InitExample ==
    /\ TokIdle /\ TokenizerIdle /\ RunIdle /\ CallIdle /\ ProbeIdle
    /\ jsonErrCaught = TRUE
    /\ features \in FeatureMaps
    /\ example = NoExample
    /\ exDone = FALSE

NextExample == CreateTfExampleCall

SpecExample == InitExample /\ [][NextExample]_vars

\* each API operation on every outcome of its request, with either requests
InitCalls ==
    /\ TokIdle /\ TokenizerIdle /\ ExIdle /\ RunIdle /\ ProbeIdle
    /\ jsonErrCaught \in BOOLEAN
    /\ callName \in Operations
    /\ callOutcome \in Outcomes
    /\ callResult = NoResult
    /\ callDone = FALSE

NextCalls ==
    \/ CallTestHealth
    \/ CallListModels
    \/ CallGenerateText
    \/ CallChatCompletion

SpecCalls == InitCalls /\ [][NextCalls]_vars

\* a run of the probe in any mode
InitProbe ==
    /\ TokIdle /\ TokenizerIdle /\ ExIdle /\ RunIdle /\ CallIdle
    /\ jsonErrCaught \in BOOLEAN
    /\ ppc = "start"
    /\ mode \in Modes
    /\ ipArg \in BOOLEAN
    /\ ipState = "unset"
    /\ promptArg \in BOOLEAN
    /\ healthPassed = FALSE
    /\ http = <<>>
    /\ results = <<>>
    /\ demoI = 0
    /\ turns = 0
    /\ interrupted = FALSE
    /\ lastLine = NoLine
    /\ modeEnd = "none"
    /\ probeExit = -1

NextProbe ==
    \/ GetIp
    \/ Health
    \/ ListModels
    \/ TestPrompt
    \/ DemoPrompt
    \/ DemoSleep
    \/ InteractiveNoLine
    \/ InteractiveLine

SpecProbe == InitProbe /\ [][NextProbe]_vars

\* ------------------------------------------------------------------------
\* The claims
\* ------------------------------------------------------------------------

\* the number of tokens of the prompt, counted on the element itself: the
\* begin-of-sequence token, the three fixed pieces, the words of the
\* instruction and, for a non-empty input, its header, words and newline
PromptTokens(element) ==
    4 + Len(element.instruction)
      + (IF element.input = <<>> THEN 0 ELSE 2 + Len(element.input))

\* C1: after tokenize_and_format, with k the prompt's token count, targets is
\* as long as inputs (max_length, like the segmentation), holds -1 at every
\* position below min(k, max_length) and the inputs token id at every position
\* from there on, padding included; when k exceeds max_length all of targets
\* is -1.
C1_TargetsMaskPrompt ==
    tokDone =>
      LET k == PromptTokens(tokElement)
          m == Min(k, MaxLength)
      IN  /\ tokLength = k
          /\ Len(tokOut.inputs) = MaxLength
          /\ Len(tokOut.targets) = Len(tokOut.inputs)
          /\ Len(tokOut.inputs_segmentation) = MaxLength
          /\ \A p \in 0..(MaxLength - 1) :
                /\ p < m => tokOut.targets[p + 1] = Sentinel
                /\ p >= m => tokOut.targets[p + 1] = tokOut.inputs[p + 1]
          /\ k > MaxLength => \A p \in 1..MaxLength : tokOut.targets[p] = Sentinel

\* a call whose prompt is shorter than max_length and whose text is padded on
\* the right: the prompt is masked, the answer and the padding are not
C1_Witness ==
    /\ tokDone
    /\ tokLength < MaxLength
    /\ tokElement.output # <<>>
    /\ tokOut.targets[1] = Sentinel
    /\ tokOut.targets[tokLength + 1] = TokenId(tokElement.output[1])
    /\ tokOut.targets[MaxLength] = Eos

AbortedBeforeWork ==
    /\ ~loaded
    /\ dataset = <<>>
    /\ ~file.exists
    /\ uploads = 0
    /\ pc \in {"start", "exited"}
    /\ pc = "exited" => exitCode > 0

\* C2 as stated: in both data-prep scripts, with the credential absent the run
\* aborts with a non-zero exit before any work: no dataset load, no file
\* write, no upload.
C2_BothScriptsAbort == ~hf_token => AbortedBeforeWork

\* C2 as amended: in prepare_arrayrecord_data.py, with the credential absent
\* the run aborts with a non-zero exit before any work: no dataset load, no
\* file write, no upload.
C2_ArrayRecordAborts == (script = "arrayrecord" /\ ~hf_token) => AbortedBeforeWork

\* the arrayrecord run has ended on the missing credential
C2_Witness ==
    /\ script = "arrayrecord"
    /\ ~hf_token
    /\ pc = "exited"
    /\ exitCode = 1
    /\ exitCause = "ValueError"

\* C3: a rejection of one example's text by the tokenizer does not abort
\* prepare_alpaca_arrayrecord: no run ends on the tokenizer's exception.
C3_TokenizerRejectionSkipped ==
    ~(script = "arrayrecord" /\ pc = "exited" /\ exitCause = "tokenizer")

\* C4: generate_text and chat_completion never raise: they return the first
\* choice's text (message content) on status 200 and the empty string, with a
\* printed diagnostic, on any other status and on a network fault.
C4_CompletionsNeverRaise ==
    (callDone /\ callName \in {"generate_text", "chat_completion"}) =>
      /\ callResult.raised = "none"
      /\ IF callOutcome.kind = "response" /\ callOutcome.status = 200
           THEN callResult.ret = callOutcome.text
           ELSE callResult.ret = "" /\ callResult.diag

\* C5: test_health returns true exactly when the GET of /health is answered
\* with status 200; for every other status and for a network exception it
\* returns false; it never raises.
C5_HealthIffStatus200 ==
    (callDone /\ callName = "test_health") =>
      /\ callResult.raised = "none"
      /\ callResult.ret = (callOutcome.kind = "response" /\ callOutcome.status = 200)

\* test_health has answered false to another success status
C5_Witness ==
    /\ callDone
    /\ callName = "test_health"
    /\ callOutcome.kind = "response"
    /\ callOutcome.status = 204
    /\ callResult.ret = FALSE

\* C6: in every mode the probe exits non-zero when no IP is determined or the
\* health check fails; a model listing or completion request is issued only
\* after a health check that succeeded; with no IP no request is issued.
C6_HealthGatesRequests ==
    /\ \A i \in 1..Len(http) :
          http[i].path # "/health" =>
            /\ healthPassed
            /\ \E j \in 1..(i - 1) : http[j].path = "/health"
    /\ ipState = "none" => (http = <<>> /\ ppc = "exited" /\ probeExit > 0)
    /\ (Len(http) >= 1 /\ ~healthPassed) =>
          (Len(http) = 1 /\ ppc = "exited" /\ probeExit > 0)

\* the health check has failed and the probe has exited
C6_Witness ==
    /\ ipState \in {"given", "found"}
    /\ http = <<Get("/health")>>
    /\ ~healthPassed
    /\ ppc = "exited"
    /\ probeExit = 1

RECURSIVE Omit(_, _, _)
\* seq from position i on, without the positions whose index (from 0) is in skip
Omit(seq, skip, i) ==
    IF i > Len(seq) THEN <<>>
    ELSE (IF (i - 1) \in skip THEN <<>> ELSE <<seq[i]>>) \o Omit(seq, skip, i + 1)

RECURSIVE Ascending(_, _)
\* the members of the set of numbers S from n on, in ascending order
Ascending(S, n) ==
    IF \A x \in S : x < n THEN <<>>
    ELSE (IF n \in S THEN <<n>> ELSE <<>>) \o Ascending(S, n + 1)

\* C7: the records in the output file of prepare_alpaca_arrayrecord are the
\* formatted records in source order without exactly those whose serialization
\* or write failed; each failure gave one warning and the loop went on; the
\* file is closed when the function has returned.
C7_RecordsInSourceOrder ==
    script = "arrayrecord" =>
      LET handled == [i \in 1..idx |-> create_tf_example(tokenized[i]).feature]
      IN  /\ file.records = Omit(handled, faults, 1)
          /\ warnings = Ascending(faults, 0)
          /\ exitCause # "write"
          /\ pc = "upload" \/ uploads > 0 =>
                /\ ~file.open
                /\ idx = Len(tokenized)
                /\ Len(tokenized) = Len(dataset)

\* three records were formatted, the second failed, the function has returned
C7_Witness ==
    /\ script = "arrayrecord"
    /\ pc = "upload"
    /\ Len(tokenized) = 3
    /\ faults = {1}
    /\ Len(file.records) = 2
    /\ file.records[1] # file.records[2]

\* the fields of a feature map that are an integer or a sequence of integers
IsIntegers(value) ==
    \/ value.kind = "int"
    \/ value.kind \in SeqKinds /\ \A i \in 1..Len(value.elems) : value.elems[i].t = "int"

\* the integers of such a field
IntegerList(value) ==
    IF value.kind = "int" THEN <<value.v>>
    ELSE [i \in 1..Len(value.elems) |-> value.elems[i].v]

Accepted(e) == e.t \in {"int", "float", "numstr"}

\* a sequence whose first element that int() does not accept is an infinite float
OverflowsFirst(value) ==
    /\ value.kind \in SeqKinds
    /\ \E i \in 1..Len(value.elems) :
          /\ value.elems[i].t = "inf"
          /\ \A j \in 1..(i - 1) : Accepted(value.elems[j])

\* the field is an integer, or a sequence whose every element int() accepts
Convertible(value) ==
    \/ value.kind = "int"
    \/ value.kind \in SeqKinds /\ \A i \in 1..Len(value.elems) : Accepted(value.elems[i])

\* n is the element as int() gives it: an integer itself, a numeric string
\* parsed, a float (in tenths) without its fraction, toward zero
IsIntOf(n, e) ==
    IF e.t = "float"
      THEN IF e.v >= 0 THEN 10 * n <= e.v /\ e.v < 10 * n + 10
           ELSE 10 * n - 10 < e.v /\ e.v <= 10 * n
      ELSE n = e.v

C9_SingleUploadAfterClose ==
    /\ uploads <= 1
    /\ uploads = 1 =>
          /\ file.exists
          /\ ~file.open
          /\ idx = Len(tokenized)
          /\ Len(tokenized) = Len(dataset)
          /\ Len(file.records) = idx - Cardinality(faults)
    /\ exitCause = "upload" =>
          /\ pc = "exited"
          /\ exitCode = 1
          /\ ~printed
          /\ uploaded = <<>>
    /\ printed => (uploads = 1 /\ exitCode = 0 /\ uploaded = file.records)

\* the single upload of a written file has failed
C9_Witness ==
    /\ exitCause = "upload"
    /\ uploads = 1
    /\ Len(file.records) >= 2
    /\ pc = "exited"

\* the prompts posted so far are the first prompts of the mode, in order
PromptsInOrder ==
    \A i \in 1..Len(http) : i >= 3 => http[i] = Post(i - 2)

\* C10: demo and interactive mode post their prompts one at a time in order;
\* a completion that fails (returns the empty string) does not stop the
\* remaining prompts; a process interrupt at any point of the mode ends the
\* mode cleanly, no exception reaching the caller; interactive mode also ends
\* on quit, exit or q.
C10_GracefulInterruption ==
    mode \in {"demo", "interactive"} =>
      /\ PromptsInOrder
      /\ Len(http) >= 2 => Len(results) <= Len(http) - 2
      /\ (mode = "demo" /\ modeEnd = "returned") => Len(results) = NumDemoPrompts
      /\ (mode = "interactive" /\ lastLine.core \in {"quit", "exit", "q"}) =>
            modeEnd = "returned"
      /\ interrupted => modeEnd = "returned"

====
